---- MODULE Spec2Model ----
(***************************************************************************)
(* Model of jira_user_cleanup.py: main() reads JIRA_URL / JIRA_PAT, builds *)
(* a JiraUserManager (authenticated JIRA client) and runs                  *)
(* cleanup_inactive_users(): one listing call, one last-login lookup per   *)
(* active user, a strict cutoff comparison and a sorted report.            *)
(*                                                                         *)
(* Time is an integer count of clock units since an epoch; one day is      *)
(* DayLen units, so that whole-day truncation (timedelta.days) matters.    *)
(***************************************************************************)
EXTENDS Integers, Sequences, FiniteSets, TLC

\* ---- bounds of the model ----
MaxUsers == 2       \* users the remote directory holds
MaxClock == 3       \* instants 0..MaxClock (clock readings and last logins)
MaxThreshold == 1   \* days_threshold ranges over 0..MaxThreshold

\* clock units per day: timedelta(days=1), and the divisor of timedelta.days
DayLen == 2

VARIABLES
    env,              \* os.environ: JIRA_URL, JIRA_PAT
    mode,             \* "report" | "deactivate" (which variant runs)
    days_threshold,   \* argument of cleanup_inactive_users
    directory,        \* remote: users as search_users returns them
    userRaw,          \* remote: reply of jira.user(name), fixed on first use
    can_step_back,    \* environment: may the wall clock be set backwards
    clock,            \* last value datetime.now(timezone.utc) returned
    pc,               \* position of main()
    calls,            \* remote calls issued so far, in order
    log,              \* records handed to logger, in order
    cutoff_date,      \* local of cleanup_inactive_users
    active_users,     \* local of cleanup_inactive_users
    idx,              \* position of the for loop over active_users
    inactive_users,   \* local of cleanup_inactive_users
    didx,             \* position of the deactivation loop
    deactivated,      \* count of successful deactivations
    run,              \* "first" | "second" invocation of the script
    firstNow,         \* clock reading that started the first invocation
    prevInactive      \* inactive_users at the end of the first invocation

vars == <<env, mode, days_threshold, directory, userRaw, can_step_back, clock,
          pc, calls, log, cutoff_date, active_users, idx, inactive_users,
          didx, deactivated, run, firstNow, prevInactive>>

\* ---- values ----
Unset == "<unset>"                         \* os.getenv(...) returning None
EnvValues == {Unset, "", "value"}
EnvNames == {"JIRA_URL", "JIRA_PAT"}

UserName(i) == <<"user", i>>
Instants == 0..MaxClock
Thresholds == 0..MaxThreshold

\* what jira.user(name) / user.raw.get('lastLoginTime') can produce
Unqueried == [kind |-> "unqueried", t |-> 0]
Replies ==
    {[kind |-> k, t |-> 0] : k \in {"error", "missing", "empty", "malformed"}}
    \cup {[kind |-> "timestamp", t |-> t] : t \in Instants}

RECURSIVE SeqsUpTo(_, _)
SeqsUpTo(S, n) ==
    IF n = 0 THEN {<<>>}
    ELSE LET shorter == SeqsUpTo(S, n - 1)
         IN  shorter \cup {Append(s, x) : s \in {q \in shorter : Len(q) = n - 1}, x \in S}

\* the remote directory: user i is named UserName(i) and is active or not
Directories ==
    {[i \in 1..Len(flags) |-> [name |-> UserName(i), active |-> flags[i]]]
        : flags \in SeqsUpTo(BOOLEAN, MaxUsers)}

\* what a call gives back: an exception, None, or a datetime
Raise == [raised |-> TRUE, known |-> FALSE, t |-> 0]
None == [raised |-> FALSE, known |-> FALSE, t |-> 0]
Some(t) == [raised |-> FALSE, known |-> TRUE, t |-> t]

LogRec(level, event, user, n, names) ==
    [level |-> level, event |-> event, user |-> user, n |-> n, names |-> names]
NoUser == <<"user", 0>>


CallRec(op, user) == [op |-> op, user |-> user]

\* ---- pure functions of the program ----

\* truthiness of an os.getenv result: None and '' are falsy
Truthy(v) == v \notin {Unset, ""}

\* faulty variant: only the URL is looked at
ConfigOkUrlOnly(e) == Truthy(e["JIRA_URL"])
\* line 106: all([jira_url, jira_pat])
ConfigOk(e) == Truthy(e["JIRA_URL"]) /\ Truthy(e["JIRA_PAT"])

\* line 107: the variables the error message names
MissingEnvMessage == {"JIRA_URL", "JIRA_PAT"}

IsActive(u) == u.active
\* faulty variant: no filter on user.active
AllUsers(users) == users
\* line 33: [user for user in users if user.active]
ActiveOnly(users) == SelectSeq(users, IsActive)

\* lines 49-50: the except branch logs an error (jira.user or strptime raised)
LookupRaises(reply) == reply.kind \in {"error", "malformed"}

\* faulty variant: an unknown last login becomes the epoch
LastLoginEpochForUnknown(reply) ==
    IF reply.kind = "timestamp" THEN Some(reply.t) ELSE Some(0)
\* faulty variant: the except branch re-raises, as get_all_active_users does
LastLoginReraising(reply) ==
    IF LookupRaises(reply) THEN Raise
    ELSE IF reply.kind = "timestamp" THEN Some(reply.t) ELSE None
\* lines 42-51: the value get_user_last_login returns for a reply of the remote.
\* jira.user raising, a missing or empty field and a strptime ValueError all
\* end in None; only a string in the format %Y-%m-%dT%H:%M:%S.%f%z parses.
get_user_last_login(reply) ==
    IF reply.kind = "error" THEN None
    ELSE IF reply.kind \in {"missing", "empty"} THEN None
    ELSE IF reply.kind = "malformed" THEN None
    ELSE Some(reply.t)

\* line 72: datetime.now(timezone.utc) - timedelta(days=days_threshold)
CutoffDate(now, threshold) == now - threshold * DayLen

\* faulty variant: <= in place of <
IsInactiveOrEqual(last_login, cutoff) == last_login.t <= cutoff
\* line 83: last_login < cutoff_date
IsInactive(last_login, cutoff) == last_login.t < cutoff

\* faulty variant: whole days between the last login and the cutoff
DaysSinceCutoff(now, last_login) ==
    (now - days_threshold * DayLen - last_login.t) \div DayLen
\* line 88: (datetime.now(timezone.utc) - last_login).days (floor of whole days)
DaysInactive(now, last_login) == (now - last_login.t) \div DayLen

\* lines 85-89
InactiveRecord(name, last_login, now) ==
    [username |-> name, last_login |-> last_login.t,
     days_inactive |-> DaysInactive(now, last_login)]

\* line 98: sorted(inactive_users, key=days_inactive, reverse=True).
\* Python's sort is stable, also with reverse=True: a record goes after every
\* record whose key is greater or equal.
InsertAt(s, r, k) ==
    SubSeq(s, 1, k - 1) \o <<r>> \o SubSeq(s, k, Len(s))
PlaceAfterEqual(s, r) ==
    LET later == {k \in 1..Len(s) : s[k].days_inactive < r.days_inactive}
    IN  IF later = {} THEN Len(s) + 1
        ELSE CHOOSE k \in later : \A j \in later : k <= j
\* faulty variant: a record goes before the records with an equal key
PlaceBeforeEqual(s, r) ==
    LET later == {k \in 1..Len(s) : s[k].days_inactive <= r.days_inactive}
    IN  IF later = {} THEN Len(s) + 1
        ELSE CHOOSE k \in later : \A j \in later : k <= j
RECURSIVE SortedUnstablePrefix(_, _)
SortedUnstablePrefix(records, n) ==
    IF n = 0 THEN <<>>
    ELSE LET head == SortedUnstablePrefix(records, n - 1)
         IN  InsertAt(head, records[n], PlaceBeforeEqual(head, records[n]))
SortedUnstable(records) == SortedUnstablePrefix(records, Len(records))
RECURSIVE SortedPrefix(_, _)
SortedPrefix(records, n) ==
    IF n = 0 THEN <<>>
    ELSE LET head == SortedPrefix(records, n - 1)
         IN  InsertAt(head, records[n], PlaceAfterEqual(head, records[n]))
SortedByDaysInactiveDesc(records) == SortedPrefix(records, Len(records))

\* faulty variant: True also when jira.deactivate_user raised
DeactivateAlwaysTrue(raised) == TRUE
\* lines 55-62: deactivate_user returns True unless jira.deactivate_user raised
deactivate_user(raised) == ~raised

\* the readings datetime.now(timezone.utc) can return next
ClockReadings == IF can_step_back THEN Instants ELSE clock..MaxClock


\* ---- initial states ----

InitLocals ==
    /\ pc = "main"
    /\ calls = <<>>
    /\ log = <<>>
    /\ cutoff_date = 0
    /\ active_users = <<>>
    /\ idx = 1
    /\ inactive_users = <<>>
    /\ didx = 1
    /\ deactivated = 0

\* the process environment, the configuration (mode "deactivate" stands for
\* the variant of the script that deactivates what it finds) and the remote
\* directory are arbitrary; nothing has been read, called or logged
Init ==
    /\ env \in [EnvNames -> EnvValues]
    /\ mode \in {"report", "deactivate"}
    /\ days_threshold \in Thresholds
    /\ directory \in Directories
    /\ userRaw = [i \in 1..Len(directory) |-> Unqueried]
    /\ can_step_back \in BOOLEAN
    /\ clock = 0
    /\ InitLocals
    /\ run = "first"
    /\ firstNow = 0
    /\ prevInactive = <<>>

remote == <<directory, userRaw>>
config == <<env, mode, days_threshold, can_step_back>>
history == <<run, firstNow, prevInactive>>
locals == <<cutoff_date, active_users, idx, inactive_users, didx, deactivated>>

\* ---- main(), lines 101-118 ----

\* lines 103-108: read the environment; return when a value is missing
main_getenv ==
    /\ pc = "main"
    /\ IF ConfigOk(env)
       THEN /\ pc' = "construct"
            /\ log' = log
       ELSE /\ pc' = "no_config"
            /\ log' = Append(log, LogRec("ERROR", "missing_env", NoUser, 0, MissingEnvMessage))
    /\ UNCHANGED <<remote, config, history, locals, clock, calls>>

\* lines 112 and 15-26: JIRA(server=..., token_auth=...); an exception reaches
\* the except of main (lines 117-118)
JiraUserManager_init ==
    /\ pc = "construct"
    /\ calls' = Append(calls, CallRec("auth", NoUser))
    /\ \E ok \in BOOLEAN :
        IF ok
        THEN /\ pc' = "cleanup"
             /\ log' = log
        ELSE /\ pc' = "aborted"
             /\ log' = Append(log, LogRec("ERROR", "an_error_occurred", NoUser, 0, {}))
    /\ UNCHANGED <<remote, config, history, locals, clock>>

\* ---- cleanup_inactive_users, lines 64-99 ----

\* faulty variant: the except branch returns an empty list
ListingSwallowed(users, ok) ==
    [raised |-> FALSE, value |-> IF ok THEN ActiveOnly(users) ELSE <<>>]
\* lines 28-38: get_all_active_users returns the active users, or re-raises
\* what search_users raised
get_all_active_users(users, ok) ==
    IF ok THEN [raised |-> FALSE, value |-> ActiveOnly(users)]
    ELSE [raised |-> TRUE, value |-> <<>>]

\* lines 72-75: cutoff_date from a clock reading, then get_all_active_users();
\* when search_users raises, get_all_active_users logs and re-raises, and the
\* exception reaches the except of main
cleanup_begin ==
    /\ pc = "cleanup"
    /\ \E now \in ClockReadings :
        /\ clock' = now
        /\ cutoff_date' = CutoffDate(now, days_threshold)
        /\ firstNow' = IF run = "first" THEN now ELSE firstNow
    /\ calls' = Append(calls, CallRec("search_users", NoUser))
    /\ \E ok \in BOOLEAN :
        LET got == get_all_active_users(directory, ok)
            logged == IF ok
                      THEN LogRec("INFO", "found_active", NoUser, Len(got.value), {})
                      ELSE LogRec("ERROR", "error_getting_active_users", NoUser, 0, {})
        IN  IF got.raised
            THEN /\ active_users' = active_users
                 /\ log' = log \o <<logged, LogRec("ERROR", "an_error_occurred", NoUser, 0, {})>>
                 /\ pc' = "aborted"
            ELSE /\ active_users' = got.value
                 /\ log' = Append(log, logged)
                 /\ pc' = IF got.value = <<>> THEN "summary" ELSE "loop"
    /\ idx' = 1
    /\ inactive_users' = <<>>
    /\ UNCHANGED <<remote, config, run, prevInactive, didx, deactivated>>

\* the reply of the remote to jira.user(name): any reply the first time, the
\* same reply afterwards (the remote data set does not change by itself)
RepliesFor(i) == IF userRaw[i] = Unqueried THEN Replies ELSE {userRaw[i]}

\* faulty variant: the loop body deactivates each inactive user it finds
cleanup_loop_body_deactivating ==
    /\ pc = "loop"
    /\ LET user == active_users[idx]
           i == user.name[2]
       IN  /\ \E reply \in RepliesFor(i) :
               LET last_login == get_user_last_login(reply)
                   raised == IF LookupRaises(reply)
                             THEN <<LogRec("ERROR", "error_getting_last_login", user.name, 0, {})>>
                             ELSE <<>>
               IN  /\ userRaw' = [userRaw EXCEPT ![i] = reply]
                   /\ pc' = IF last_login.raised THEN "aborted"
                            ELSE IF idx = Len(active_users) THEN "summary" ELSE "loop"
                   /\ IF last_login.raised
                      THEN /\ log' = log \o raised \o
                                     <<LogRec("ERROR", "an_error_occurred", NoUser, 0, {})>>
                           /\ calls' = Append(calls, CallRec("user", user.name))
                           /\ UNCHANGED <<inactive_users, clock, directory>>
                      ELSE IF ~last_login.known
                      THEN /\ log' = log \o raised \o
                                     <<LogRec("WARNING", "could_not_determine", user.name, 0, {})>>
                           /\ calls' = Append(calls, CallRec("user", user.name))
                           /\ UNCHANGED <<inactive_users, clock, directory>>
                      ELSE IF IsInactive(last_login, cutoff_date)
                      THEN \E now \in ClockReadings :
                            /\ clock' = now
                            /\ directory' = [directory EXCEPT ![i].active = FALSE]
                            /\ calls' = calls \o <<CallRec("user", user.name),
                                                    CallRec("deactivate_user", user.name)>>
                            /\ log' = Append(log, LogRec("INFO", "inactive_user_found", user.name, last_login.t, {}))
                            /\ inactive_users' = Append(inactive_users,
                                                        InactiveRecord(user.name, last_login, now))
                      ELSE /\ calls' = Append(calls, CallRec("user", user.name))
                           /\ UNCHANGED <<log, inactive_users, clock, directory>>
    /\ idx' = idx + 1
    /\ UNCHANGED <<config, history, cutoff_date, active_users, didx, deactivated>>

\* lines 76-89: one iteration of the for loop
cleanup_loop_body ==
    /\ pc = "loop"
    /\ LET user == active_users[idx]
           i == user.name[2]
       IN  /\ calls' = Append(calls, CallRec("user", user.name))
           /\ \E reply \in RepliesFor(i) :
               LET last_login == get_user_last_login(reply)
                   raised == IF LookupRaises(reply)
                             THEN <<LogRec("ERROR", "error_getting_last_login", user.name, 0, {})>>
                             ELSE <<>>
               IN  /\ userRaw' = [userRaw EXCEPT ![i] = reply]
                   /\ pc' = IF last_login.raised THEN "aborted"
                            ELSE IF idx = Len(active_users) THEN "summary" ELSE "loop"
                   /\ IF last_login.raised
                      THEN /\ log' = log \o raised \o
                                     <<LogRec("ERROR", "an_error_occurred", NoUser, 0, {})>>
                           /\ UNCHANGED <<inactive_users, clock>>
                      ELSE IF ~last_login.known
                      THEN /\ log' = log \o raised \o
                                     <<LogRec("WARNING", "could_not_determine", user.name, 0, {})>>
                           /\ UNCHANGED <<inactive_users, clock>>
                      ELSE IF IsInactive(last_login, cutoff_date)
                      THEN \E now \in ClockReadings :
                            /\ clock' = now
                            /\ log' = Append(log, LogRec("INFO", "inactive_user_found", user.name, last_login.t, {}))
                            /\ inactive_users' = Append(inactive_users,
                                                        InactiveRecord(user.name, last_login, now))
                      ELSE UNCHANGED <<log, inactive_users, clock>>
    /\ idx' = idx + 1
    /\ UNCHANGED <<directory, config, history, cutoff_date, active_users, didx, deactivated>>

\* lines 98-99: one line per record, in sorted order
DetailLines(records) ==
    [k \in 1..Len(records) |->
        LogRec("INFO", "detail", records[k].username, records[k].days_inactive, {})]

\* lines 91-99: the summary and, when there are inactive users, the listing
cleanup_report ==
    /\ pc = "summary"
    /\ mode = "report"
    /\ log' = log \o <<LogRec("INFO", "summary", NoUser, 0, {}),
                       LogRec("INFO", "total_checked", NoUser, Len(active_users), {}),
                       LogRec("INFO", "total_inactive", NoUser, Len(inactive_users), {})>>
                  \o (IF inactive_users # <<>>
                      THEN <<LogRec("INFO", "detail_header", NoUser, 0, {})>>
                           \o DetailLines(SortedByDaysInactiveDesc(inactive_users))
                      ELSE <<>>)
    /\ pc' = "done"
    /\ UNCHANGED <<remote, config, history, locals, clock, calls>>

\* ---- deactivate mode (the variant that calls deactivate_user) ----

\* one record of the batch: deactivate_user(username), lines 53-62; a failure
\* is logged and the batch goes on
deactivate_step ==
    /\ pc = "summary"
    /\ mode = "deactivate"
    /\ didx <= Len(inactive_users)
    /\ LET name == inactive_users[didx].username
       IN  /\ calls' = Append(calls, CallRec("deactivate_user", name))
           /\ \E raised \in BOOLEAN :
               LET result == deactivate_user(raised)
               IN  /\ log' = Append(log, LogRec(IF raised THEN "ERROR" ELSE "INFO",
                                                IF raised THEN "error_deactivating" ELSE "deactivated",
                                                name, 0, {}))
                   /\ deactivated' = IF result THEN deactivated + 1 ELSE deactivated
                   /\ directory' = IF raised THEN directory
                                   ELSE [directory EXCEPT ![name[2]].active = FALSE]
    /\ didx' = didx + 1
    /\ UNCHANGED <<userRaw, config, history, cutoff_date, active_users, idx,
                   inactive_users, clock, pc>>

\* the end of the batch: the count of successful deactivations is logged
deactivate_finish ==
    /\ pc = "summary"
    /\ mode = "deactivate"
    /\ didx > Len(inactive_users)
    /\ log' = Append(log, LogRec("INFO", "total_deactivated", NoUser, deactivated, {}))
    /\ pc' = "done"
    /\ UNCHANGED <<remote, config, history, locals, clock, calls>>

\* ---- the script run again (lines 120-121) on the same remote data ----
run_again ==
    /\ pc = "done"
    /\ run = "first"
    /\ run' = "second"
    /\ prevInactive' = inactive_users
    /\ pc' = "main"
    /\ calls' = <<>>
    /\ log' = <<>>
    /\ cutoff_date' = 0
    /\ active_users' = <<>>
    /\ idx' = 1
    /\ inactive_users' = <<>>
    /\ didx' = 1
    /\ deactivated' = 0
    /\ UNCHANGED <<remote, config, clock, firstNow>>

Next ==
    \/ main_getenv
    \/ JiraUserManager_init
    \/ cleanup_begin
    \/ cleanup_loop_body
    \/ cleanup_report
    \/ deactivate_step
    \/ deactivate_finish

Spec == Init /\ [][Next]_vars

\* report mode run twice in a row with a clock that does not go backwards
InitTwice ==
    /\ Init
    /\ mode = "report"
    /\ ~can_step_back

NextTwice ==
    \/ main_getenv
    \/ JiraUserManager_init
    \/ cleanup_begin
    \/ cleanup_loop_body
    \/ cleanup_report
    \/ run_again

SpecTwice == InitTwice /\ [][NextTwice]_vars


\* ---- vocabulary of the properties ----

HasEvent(e) == \E k \in 1..Len(log) : log[k].event = e
CallsOf(op) == {k \in 1..Len(calls) : calls[k].op = op}
RawOf(name) == userRaw[name[2]]
InInactive(name) == \E j \in 1..Len(inactive_users) : inactive_users[j].username = name
PosInInactive(name) ==
    CHOOSE j \in 1..Len(inactive_users) : inactive_users[j].username = name
Processed == 1..(idx - 1)
StartCutoff == firstNow - days_threshold * DayLen
MissingEnv == {n \in EnvNames : env[n] \in {Unset, ""}}
IsDetail(e) == e.event = "detail"
Details == SelectSeq(log, IsDetail)
IsLookup(c) == c.op = "user"
NotDeactivate(c) == c.op # "deactivate_user"
ReportEvents == {"summary", "total_checked", "total_inactive", "detail_header",
                 "detail", "inactive_user_found", "total_deactivated"}

\* C1: an active user with a known last login L is in the inactive set iff
\* L < now - T days, now being the reading taken at the start of the run; a
\* user with L = now - T days is not in it.
C1_StrictCutoff ==
    \A k \in Processed :
        LET u == active_users[k]
            r == RawOf(u.name)
        IN  r.kind = "timestamp" => (InInactive(u.name) <=> r.t < StartCutoff)

C1_Witness ==
    /\ pc = "done"
    /\ inactive_users # <<>>
    /\ \E k \in Processed :
        /\ RawOf(active_users[k].name).kind = "timestamp"
        /\ RawOf(active_users[k].name).t = StartCutoff
        /\ ~InInactive(active_users[k].name)

\* C2: a user whose last login is unknown (field absent or empty, query
\* failed, timestamp not parsed) is never in the inactive set and never the
\* argument of a deactivate call.
C2_UnknownNeverInactive ==
    /\ \A j \in 1..Len(inactive_users) :
        RawOf(inactive_users[j].username).kind = "timestamp"
    /\ \A k \in CallsOf("deactivate_user") : RawOf(calls[k].user).kind = "timestamp"

C2_Witness ==
    /\ pc = "done"
    /\ mode = "deactivate"
    /\ CallsOf("deactivate_user") # {}
    /\ \E k \in CallsOf("user") :
        RawOf(calls[k].user).kind \in {"error", "missing", "empty", "malformed"}

\* C3 as stated: with a required value missing or empty, main returns before
\* any remote call and its error names the values that are missing.
C3_ErrorNamesMissing ==
    MissingEnv # {} =>
        /\ calls = <<>>
        /\ pc \in {"main", "no_config"}
        /\ pc = "no_config" =>
            /\ Len(log) = 1
            /\ log[1].level = "ERROR"
            /\ log[1].names = MissingEnv

\* C3 amended: with a required value missing or empty, main returns before
\* any remote call, with one error that names both JIRA_URL and JIRA_PAT
\* whichever of them is missing.
C3_AbortBeforeRemoteCall ==
    MissingEnv # {} =>
        /\ calls = <<>>
        /\ pc \in {"main", "no_config"}
        /\ pc = "no_config" =>
            log = <<LogRec("ERROR", "missing_env", NoUser, 0, EnvNames)>>

C3_Witness ==
    /\ pc = "no_config"
    /\ Cardinality(MissingEnv) = 1

\* C4: when the listing call fails the failure leaves get_all_active_users
\* and the run aborts: no lookup, no deactivation, no summary or listing.
C4_ListingFailureAborts ==
    HasEvent("error_getting_active_users") =>
        /\ pc = "aborted"
        /\ log[Len(log)].event = "an_error_occurred"
        /\ CallsOf("user") = {}
        /\ CallsOf("deactivate_user") = {}
        /\ \A e \in ReportEvents : ~HasEvent(e)

C4_Witness ==
    /\ HasEvent("error_getting_active_users")
    /\ calls = <<CallRec("auth", NoUser), CallRec("search_users", NoUser)>>

\* C5: a failed last-login lookup (query error, unexpected timestamp format)
\* leaves only that user undetermined: the run is not aborted, every other
\* active user is still looked up and classified by its own last login, and
\* the run completes with its summary logged.
WarnedAbout(name) ==
    \E k \in 1..Len(log) : log[k].event = "could_not_determine" /\ log[k].user = name
LookupFailed ==
    \E k \in Processed : RawOf(active_users[k].name).kind \in {"error", "malformed"}
C5_LookupFailureIsolated ==
    /\ pc = "aborted" => CallsOf("user") = {}
    /\ \A k \in Processed :
        LET u == active_users[k]
            r == RawOf(u.name)
        IN  /\ CallRec("user", u.name) \in {calls[c] : c \in CallsOf("user")}
            /\ r.kind # "timestamp" => (~InInactive(u.name) /\ WarnedAbout(u.name))
            /\ r.kind = "timestamp" => (InInactive(u.name) <=> r.t < StartCutoff)
    /\ (pc \in {"loop", "summary"} /\ LookupFailed) => ENABLED Next
    /\ pc = "done" =>
        /\ idx = Len(active_users) + 1
        /\ Cardinality(CallsOf("user")) = Len(active_users)
        /\ mode = "report" =>
            \E k \in 1..Len(log) :
                /\ log[k].event = "total_checked"
                /\ log[k].n = Len(active_users)

C5_Witness ==
    /\ pc = "done"
    /\ mode = "report"
    /\ \E a, b \in Processed :
        /\ a < b
        /\ RawOf(active_users[a].name).kind \in {"error", "malformed"}
        /\ InInactive(active_users[b].name)

\* C6: the listing logged at the end of a report run holds exactly the records
\* of the inactive set, by days_inactive descending, records with equal
\* days_inactive in the order their users were listed.
C6_ListingSortedStable ==
    (pc = "done" /\ mode = "report") =>
        LET D == Details
        IN  /\ Len(D) = Len(inactive_users)
            /\ SubSeq(log, Len(log) - Len(D) + 1, Len(log)) = D
            /\ {<<D[k].user, D[k].n>> : k \in 1..Len(D)}
                 = {<<inactive_users[j].username, inactive_users[j].days_inactive>>
                        : j \in 1..Len(inactive_users)}
            /\ \A a, b \in 1..Len(D) :
                a < b => \/ D[a].n > D[b].n
                         \/ /\ D[a].n = D[b].n
                            /\ PosInInactive(D[a].user) < PosInInactive(D[b].user)

C6_Witness ==
    /\ pc = "done"
    /\ mode = "report"
    /\ \E a, b \in 1..Len(inactive_users) :
        /\ a < b
        /\ inactive_users[a].days_inactive = inactive_users[b].days_inactive
        /\ inactive_users[a].last_login # inactive_users[b].last_login

\* C7: in deactivate mode a failed deactivate call does not end the batch, and
\* the count logged at the end is the number of calls that succeeded.
Deactivated(j) == ~directory[inactive_users[j].username[2]].active
C7_CountsSuccesses ==
    mode = "deactivate" =>
        /\ pc = "aborted" => CallsOf("deactivate_user") = {}
        /\ pc = "done" =>
            /\ Cardinality(CallsOf("deactivate_user")) = Len(inactive_users)
            /\ log[Len(log)].event = "total_deactivated"
            /\ log[Len(log)].n =
                 Cardinality({j \in 1..Len(inactive_users) : Deactivated(j)})

C7_Witness ==
    /\ pc = "done"
    /\ mode = "deactivate"
    /\ Len(inactive_users) = 2
    /\ ~Deactivated(1)
    /\ Deactivated(2)

\* C8 as stated: report mode issues no deactivate call, and a second run on
\* the same remote data gives the same inactive set, with the same
\* days_inactive values.
SameUser(r, q) == r.username = q.username /\ r.last_login = q.last_login
C8_SecondRunIdentical ==
    /\ CallsOf("deactivate_user") = {}
    /\ (run = "second" /\ pc = "done") => inactive_users = prevInactive

\* C8 amended: report mode issues no deactivate call; a second run on the
\* same remote data gives the same inactive set and days_inactive values when
\* the clock reads the same throughout both runs, and when the clock has
\* advanced (never backwards) it keeps every user of the first run, in the
\* same order, with days_inactive no smaller.
C8_SecondRunSameClock ==
    /\ CallsOf("deactivate_user") = {}
    /\ (run = "second" /\ pc = "done") =>
        /\ clock = firstNow => inactive_users = prevInactive
        /\ \A j \in 1..Len(prevInactive) :
            \E k \in 1..Len(inactive_users) :
                /\ SameUser(prevInactive[j], inactive_users[k])
                /\ inactive_users[k].days_inactive >= prevInactive[j].days_inactive
        /\ \A i, j \in 1..Len(prevInactive) :
            i < j => PosInInactive(prevInactive[i].username)
                        < PosInInactive(prevInactive[j].username)

C8_Witness ==
    /\ run = "second"
    /\ pc = "done"
    /\ clock = firstNow
    /\ Len(inactive_users) = 2
    /\ inactive_users = prevInactive

\* C9: the remote calls of a run are the authentication, then one listing
\* call, then one lookup per user listed with active=true, in listing order;
\* no lookup for a user with active=false or before the listing succeeded.
WasListedActive(u) ==
    u.active \/ \E k \in CallsOf("deactivate_user") : calls[k].user = u.name
LookupOf(u) == CallRec("user", u.name)
ExpectedCalls ==
    LET listed == SelectSeq(directory, WasListedActive)
    IN  <<CallRec("auth", NoUser), CallRec("search_users", NoUser)>>
        \o [k \in 1..Len(listed) |-> LookupOf(listed[k])]
C9_CallOrder ==
    LET made == SelectSeq(calls, NotDeactivate)
    IN  /\ Len(made) <= Len(ExpectedCalls)
        /\ made = SubSeq(ExpectedCalls, 1, Len(made))
        /\ pc \in {"summary", "done"} => made = ExpectedCalls
        /\ pc = "aborted" => CallsOf("user") = {}
        /\ calls = made \o SubSeq(calls, Len(made) + 1, Len(calls))

C9_Witness ==
    /\ pc = "done"
    /\ Cardinality(CallsOf("user")) = 1
    /\ Len(directory) = 2
    /\ ~directory[1].active
    /\ calls[3] = CallRec("user", UserName(2))

\* C10: with a clock that never goes backwards, every record of the inactive
\* set has days_inactive >= days_threshold.
C10_DaysAtLeastThreshold ==
    ~can_step_back =>
        \A j \in 1..Len(inactive_users) :
            inactive_users[j].days_inactive >= days_threshold

C10_Witness ==
    /\ ~can_step_back
    /\ days_threshold >= 1
    /\ \E j \in 1..Len(inactive_users) :
        inactive_users[j].days_inactive = days_threshold

====
